---------------------------- MODULE Spec2Model ----------------------------
(***************************************************************************)
(* A model of the INI reader / rewriter of src/ini.hpp (class Ini).        *)
(*                                                                         *)
(* Text is modelled at the level of characters: a std::string is a         *)
(* sequence of one-character strings, so trimming, the search for ']' and  *)
(* the separator, the line terminator written after every line and the     *)
(* pop_back() of the last one are all computed as the code computes them.  *)
(* The file is the only persistent state; every call reloads it.           *)
(***************************************************************************)
EXTENDS Integers, Sequences, FiniteSets, TLC

VARIABLES
    file,                 \* content of the file at file_path_ (characters)
    file_exists,          \* whether the file at file_path_ exists
    field_separator_,     \* Ini::field_separator_
    comment_prefix_list_, \* Ini::comment_prefix_list_
    last,                 \* the last call: operation, arguments, what it returned
    writers               \* concurrent set_field calls: how far each has got

vars == <<file, file_exists, field_separator_, comment_prefix_list_, last, writers>>

(***************************************************************************)
(* Bounds of the model.                                                    *)
(***************************************************************************)
\* lines of the file the program is started on
MaxInitLines == 3
\* characters of the file the program is started on
MaxInitLen == 11
\* characters of a file that is still written to
MaxFileLen == 11
\* characters of the raw value of an integer field
MaxIntLen == 3

(***************************************************************************)
(* Characters and strings.                                                 *)
(***************************************************************************)
NL == "\n"

\* trim(): const char *whitespaces = " \t\n\r\f\v" (no escape for \v here;
\* no modelled text holds one)
whitespaces == {" ", "\t", "\n", "\r", "\f"}

\* std::string::npos, as an index that no character has (indices start at 1)
npos == 0

\* std::string::find(char): index of the first occurrence, or npos
find(str, c) ==
    IF \E i \in 1..Len(str) : str[i] = c
    THEN CHOOSE i \in 1..Len(str) : str[i] = c /\ \A j \in 1..(i-1) : str[j] # c
    ELSE npos

\* line.find(prefix) == 0
find_at_0(line, prefix) ==
    /\ Len(prefix) <= Len(line)
    /\ SubSeq(line, 1, Len(prefix)) = prefix

find_last_not_of(str) ==
    IF \E i \in 1..Len(str) : str[i] \notin whitespaces
    THEN CHOOSE i \in 1..Len(str) :
            str[i] \notin whitespaces /\ \A j \in (i+1)..Len(str) : str[j] \in whitespaces
    ELSE npos

find_first_not_of(str) ==
    IF \E i \in 1..Len(str) : str[i] \notin whitespaces
    THEN CHOOSE i \in 1..Len(str) :
            str[i] \notin whitespaces /\ \A j \in 1..(i-1) : str[j] \in whitespaces
    ELSE npos

\* Ini::trim
trim(str) ==
    LET lastpos == find_last_not_of(str) IN
    IF lastpos = npos THEN <<>>
    ELSE LET kept == SubSeq(str, 1, lastpos) IN
         SubSeq(kept, find_first_not_of(kept), Len(kept))

\* Ini::is_ignore_line
is_ignore_line(line) ==
    \/ Len(line) = 0
    \/ \E k \in 1..Len(comment_prefix_list_) : find_at_0(line, comment_prefix_list_[k])

(***************************************************************************)
(* The lines the scan loop reads.  `iss << ifs.rdbuf()` sets failbit when  *)
(* it inserts no character (file missing or empty), so the loop            *)
(* `while (!iss.eof() && !iss.fail())` is not entered at all; otherwise    *)
(* std::getline yields the text between terminators, and one more (empty)  *)
(* line when the content ends with a terminator.                           *)
(***************************************************************************)
RECURSIVE getlines(_)
getlines(str) ==
    LET p == find(str, NL) IN
    IF p = npos THEN <<str>>
    ELSE <<SubSeq(str, 1, p - 1)>> \o getlines(SubSeq(str, p + 1, Len(str)))

scan_lines(content) == IF content = <<>> THEN <<>> ELSE getlines(content)

(***************************************************************************)
(* Ini::try_get_field: [found, value].                                     *)
(***************************************************************************)
NotFound == [found |-> FALSE, value |-> <<>>]

\* get_match that takes an empty value for a value
get_match_empty_found(current_value) ==
    [found |-> TRUE, value |-> current_value]

\* lines 312-316: a field line of the target section and name ends the scan
get_match(current_value) ==
    [found |-> Len(current_value) # 0, value |-> current_value]

\* get_scan that goes on past a matching field whose value is empty
RECURSIVE get_scan_skip_empty(_, _, _, _, _)
get_scan_skip_empty(lines, i, current_section, target_section, target_field) ==
    IF i > Len(lines) THEN NotFound
    ELSE
    LET line == trim(lines[i]) IN
    IF is_ignore_line(line)
    THEN get_scan_skip_empty(lines, i + 1, current_section, target_section, target_field)
    ELSE IF line[1] = "["
    THEN LET pos == find(line, "]") IN
         IF pos = npos THEN NotFound
         ELSE IF pos = 2 THEN NotFound
         ELSE get_scan_skip_empty(lines, i + 1, SubSeq(line, 2, pos - 1),
                                  target_section, target_field)
    ELSE IF current_section = <<>> THEN NotFound
    ELSE LET pos == find(line, field_separator_) IN
         IF pos = npos THEN NotFound
         ELSE LET current_field == trim(SubSeq(line, 1, pos - 1))
                  current_value == trim(SubSeq(line, pos + 1, Len(line)))
              IN IF /\ current_section = target_section
                    /\ current_field = target_field
                    /\ Len(current_value) # 0
                 THEN get_match(current_value)
                 ELSE get_scan_skip_empty(lines, i + 1, current_section,
                                          target_section, target_field)

\* get_scan that passes over a malformed line instead of ending the lookup
RECURSIVE get_scan_skip_malformed(_, _, _, _, _)
get_scan_skip_malformed(lines, i, current_section, target_section, target_field) ==
    IF i > Len(lines) THEN NotFound
    ELSE
    LET line == trim(lines[i]) IN
    IF is_ignore_line(line)
    THEN get_scan_skip_malformed(lines, i + 1, current_section,
                                 target_section, target_field)
    ELSE IF line[1] = "["
    THEN LET pos == find(line, "]") IN
         IF pos = npos \/ pos = 2
         THEN get_scan_skip_malformed(lines, i + 1, current_section,
                                      target_section, target_field)
         ELSE get_scan_skip_malformed(lines, i + 1, SubSeq(line, 2, pos - 1),
                                      target_section, target_field)
    ELSE LET pos == find(line, field_separator_) IN
         IF current_section = <<>> \/ pos = npos
         THEN get_scan_skip_malformed(lines, i + 1, current_section,
                                      target_section, target_field)
         ELSE LET current_field == trim(SubSeq(line, 1, pos - 1))
                  current_value == trim(SubSeq(line, pos + 1, Len(line)))
              IN IF current_section = target_section /\ current_field = target_field
                 THEN get_match(current_value)
                 ELSE get_scan_skip_malformed(lines, i + 1, current_section,
                                              target_section, target_field)

RECURSIVE get_scan(_, _, _, _, _)
get_scan(lines, i, current_section, target_section, target_field) ==
    IF i > Len(lines) THEN NotFound
    ELSE
    LET line == trim(lines[i]) IN
    IF is_ignore_line(line)
    THEN get_scan(lines, i + 1, current_section, target_section, target_field)
    ELSE IF line[1] = "["
    THEN LET pos == find(line, "]") IN
         IF pos = npos THEN NotFound
         ELSE IF pos = 2 THEN NotFound
         ELSE get_scan(lines, i + 1, SubSeq(line, 2, pos - 1),
                       target_section, target_field)
    ELSE IF current_section = <<>> THEN NotFound
    ELSE LET pos == find(line, field_separator_) IN
         IF pos = npos THEN NotFound
         ELSE LET current_field == trim(SubSeq(line, 1, pos - 1))
                  current_value == trim(SubSeq(line, pos + 1, Len(line)))
              IN IF current_section = target_section /\ current_field = target_field
                 THEN get_match(current_value)
                 ELSE get_scan(lines, i + 1, current_section,
                               target_section, target_field)

try_get_field(content, target_section, target_field) ==
    get_scan(scan_lines(content), 1, <<>>, target_section, target_field)

\* Ini::read_str
read_str(content, section_name, field_name, default_value) ==
    LET r == try_get_field(content, section_name, field_name) IN
    IF ~r.found THEN default_value ELSE r.value

(***************************************************************************)
(* Ini::set_field.  The scan state is [ok, current_section, found_mode,    *)
(* oss]; ok = FALSE is an early `return false`.                            *)
(***************************************************************************)
NO_MATCH == "NO_MATCH"
SECTION_MATCH == "SECTION_MATCH"
BOTH_MATCH == "BOTH_MATCH"

assignment(target_field, value) == target_field \o <<field_separator_>> \o value

\* set_header that stays in SECTION_MATCH at the header of another section
set_header_keep_mode(st, line, name, target_section, target_field, value) ==
    IF name = target_section
    THEN [st EXCEPT !.current_section = name,
                    !.found_mode = SECTION_MATCH,
                    !.oss = @ \o line \o <<NL>>]
    ELSE [st EXCEPT !.current_section = name,
                    !.oss = @ \o line \o <<NL>>]

\* lines 356-364: a header line
set_header(st, line, name, target_section, target_field, value) ==
    IF name = target_section
    THEN [st EXCEPT !.current_section = name,
                    !.found_mode = SECTION_MATCH,
                    !.oss = @ \o line \o <<NL>>]
    ELSE IF st.found_mode = SECTION_MATCH
    THEN [st EXCEPT !.current_section = name,
                    !.found_mode = BOTH_MATCH,
                    !.oss = @ \o assignment(target_field, value) \o <<NL>> \o line \o <<NL>>]
    ELSE [st EXCEPT !.current_section = name,
                    !.oss = @ \o line \o <<NL>>]

\* set_fieldline that writes the replacement without its line terminator
set_fieldline_no_terminator(st, line, pos, target_section, target_field, value) ==
    LET current_field == trim(SubSeq(line, 1, pos - 1)) IN
    IF st.current_section = target_section /\ current_field = target_field
    THEN [st EXCEPT !.found_mode = BOTH_MATCH,
                    !.oss = @ \o assignment(target_field, value)]
    ELSE [st EXCEPT !.oss = @ \o line \o <<NL>>]

\* lines 377-386: a field line
set_fieldline(st, line, pos, target_section, target_field, value) ==
    LET current_field == trim(SubSeq(line, 1, pos - 1)) IN
    IF st.current_section = target_section /\ current_field = target_field
    THEN [st EXCEPT !.found_mode = BOTH_MATCH,
                    !.oss = @ \o assignment(target_field, value) \o <<NL>>]
    ELSE [st EXCEPT !.oss = @ \o line \o <<NL>>]

\* lines 339-386: one iteration of the loop
set_step(st, rawline, target_section, target_field, value) ==
    LET line == trim(rawline) IN
    IF is_ignore_line(line)
    THEN [st EXCEPT !.oss = @ \o line \o <<NL>>]
    ELSE IF line[1] = "["
    THEN LET pos == find(line, "]") IN
         IF pos = npos THEN [st EXCEPT !.ok = FALSE]
         ELSE IF pos = 2 THEN [st EXCEPT !.ok = FALSE]
         ELSE set_header(st, line, SubSeq(line, 2, pos - 1),
                         target_section, target_field, value)
    ELSE IF st.current_section = <<>> THEN [st EXCEPT !.ok = FALSE]
    ELSE LET pos == find(line, field_separator_) IN
         IF pos = npos THEN [st EXCEPT !.ok = FALSE]
         ELSE set_fieldline(st, line, pos, target_section, target_field, value)

RECURSIVE set_scan(_, _, _, _, _, _)
set_scan(lines, i, st, target_section, target_field, value) ==
    IF i > Len(lines) \/ ~st.ok THEN st
    ELSE set_scan(lines, i + 1,
                  set_step(st, lines[i], target_section, target_field, value),
                  target_section, target_field, value)

\* set_finish that forgets the header of a section it has not met
set_finish_no_header(st, target_section, target_field, value) ==
    IF st.found_mode = BOTH_MATCH THEN st
    ELSE [st EXCEPT !.oss = @ \o assignment(target_field, value) \o <<NL>>]

\* lines 389-397: what is appended after the loop
set_finish(st, target_section, target_field, value) ==
    IF st.found_mode = NO_MATCH
    THEN [st EXCEPT !.oss = @ \o <<"[">> \o target_section \o <<"]", NL>>
                               \o assignment(target_field, value) \o <<NL>>]
    ELSE IF st.found_mode = SECTION_MATCH
    THEN [st EXCEPT !.oss = @ \o assignment(target_field, value) \o <<NL>>]
    ELSE st

\* pop_back left out
pop_back_none(str) == str

\* lines 399-400: result = oss.str(); result.pop_back();
pop_back(str) == SubSeq(str, 1, Len(str) - 1)

\* lines 325-335: the scan starts outside every section, with nothing matched
\* and nothing written
set_start ==
    [ok |-> TRUE, current_section |-> <<>>, found_mode |-> NO_MATCH, oss |-> <<>>]

\* lines 337-397: the scan and what is appended after it; oss is the buffer
\* that result is taken from
set_buffer(content, target_section, target_field, value) ==
    LET st1 == set_scan(scan_lines(content), 1, set_start,
                        target_section, target_field, value)
    IN IF ~st1.ok THEN st1
       ELSE set_finish(st1, target_section, target_field, value)

\* lines 325-400: the parse and the rebuilt text, before the file is opened
set_build(content, target_section, target_field, value) ==
    LET st2 == set_buffer(content, target_section, target_field, value) IN
    IF ~st2.ok THEN [ok |-> FALSE, found_mode |-> st2.found_mode, result |-> <<>>]
    ELSE [ok |-> TRUE, found_mode |-> st2.found_mode, result |-> pop_back(st2.oss)]

\* set_field with the output stream opened before the parse: a parse failure
\* then leaves the file truncated
set_field_open_first(content, can_open, target_section, target_field, value) ==
    LET b == set_build(content, target_section, target_field, value) IN
    IF ~can_open
    THEN [ret |-> FALSE, opened |-> TRUE, written |-> FALSE,
          found_mode |-> b.found_mode, content |-> content]
    ELSE IF ~b.ok
    THEN [ret |-> FALSE, opened |-> TRUE, written |-> TRUE,
          found_mode |-> b.found_mode, content |-> <<>>]
    ELSE [ret |-> TRUE, opened |-> TRUE, written |-> TRUE,
          found_mode |-> b.found_mode, content |-> b.result]

\* lines 402-408: std::ofstream ofs(file_path_); the open may fail
set_field(content, can_open, target_section, target_field, value) ==
    LET b == set_build(content, target_section, target_field, value) IN
    IF ~b.ok
    THEN [ret |-> FALSE, opened |-> FALSE, written |-> FALSE,
          found_mode |-> b.found_mode, content |-> content]
    ELSE IF can_open
    THEN [ret |-> TRUE, opened |-> TRUE, written |-> TRUE,
          found_mode |-> b.found_mode, content |-> b.result]
    ELSE [ret |-> FALSE, opened |-> TRUE, written |-> FALSE,
          found_mode |-> b.found_mode, content |-> content]

(***************************************************************************)
(* The value codec of booleans.                                            *)
(***************************************************************************)
\* write_bool: value ? "true" : "false"
bool_text(value) == IF value THEN <<"t", "r", "u", "e">> ELSE <<"f", "a", "l", "s", "e">>

\* ::toupper on the characters the modelled texts hold
toupper(c) ==
    CASE c = "t" -> "T" [] c = "r" -> "R" [] c = "u" -> "U" [] c = "e" -> "E"
      [] c = "f" -> "F" [] c = "a" -> "A" [] c = "l" -> "L" [] c = "s" -> "S"
      [] c = "c" -> "C"
      [] OTHER -> c

\* Ini::read_bool
read_bool(content, section_name, field_name, default_value) ==
    LET r == try_get_field(content, section_name, field_name) IN
    IF ~r.found THEN default_value
    ELSE LET str == [i \in 1..Len(r.value) |-> toupper(r.value[i])] IN
         IF str = <<"T", "R", "U", "E">> \/ str = <<"1">> THEN TRUE
         ELSE IF str = <<"F", "A", "L", "S", "E">> \/ str = <<"0">> THEN FALSE
         ELSE default_value

(***************************************************************************)
(* The value codec of integers.  long is 64 bits wide and int 32 bits; a   *)
(* number wider than the checker's integers is held as its decimal digits  *)
(* or as two 16-bit halves.                                                *)
(***************************************************************************)
\* the value of a character as a digit (99: not a digit in any base)
digit_value(c) ==
    CASE c = "0" -> 0 [] c = "1" -> 1 [] c = "2" -> 2 [] c = "3" -> 3
      [] c = "4" -> 4 [] c = "5" -> 5 [] c = "6" -> 6 [] c = "7" -> 7
      [] c = "8" -> 8 [] c = "9" -> 9
      [] c \in {"a", "A"} -> 10 [] c \in {"b", "B"} -> 11
      [] c \in {"c", "C"} -> 12 [] c \in {"d", "D"} -> 13
      [] c \in {"e", "E"} -> 14 [] c \in {"f", "F"} -> 15
      [] OTHER -> 99

\* the first index from p on whose character is not a digit of the base
RECURSIVE digits_end(_, _, _)
digits_end(str, p, base) ==
    IF p <= Len(str) /\ digit_value(str[p]) < base
    THEN digits_end(str, p + 1, base)
    ELSE p

\* std::strtol(value, &endptr, base): [start, end, negative]; the digits
\* converted are str[start..end], endptr is behind str[end]; end = 0 when no
\* conversion is made (endptr is then the start of the text)
strtol(str, base) ==
    LET p0 == find_first_not_of(str)
        neg == p0 # npos /\ str[p0] = "-"
        p1 == IF p0 # npos /\ str[p0] \in {"+", "-"} THEN p0 + 1 ELSE p0
        p2 == IF /\ base = 16
                 /\ p1 # npos
                 /\ p1 + 2 <= Len(str)
                 /\ str[p1] = "0"
                 /\ str[p1 + 1] \in {"x", "X"}
                 /\ digit_value(str[p1 + 2]) < 16
              THEN p1 + 2 ELSE p1
        e == IF p2 = npos THEN npos ELSE digits_end(str, p2, base)
    IN IF p2 = npos \/ e = p2
       THEN [start |-> 0, end |-> 0, negative |-> FALSE]
       ELSE [start |-> p2, end |-> e - 1, negative |-> neg]

\* Ini::is_convertable_to_long: *endptr == '\0' for base 10, 8 or 16
is_convertable_to_long(value) ==
    \/ Len(value) = 0
    \/ \E base \in {10, 8, 16} : strtol(value, base).end = Len(value)

\* decimal digits without the leading zeros
RECURSIVE strip_zeros(_)
strip_zeros(ds) ==
    IF Len(ds) > 1 /\ ds[1] = 0 THEN strip_zeros(Tail(ds)) ELSE ds

\* a < b for digit sequences of one length
RECURSIVE digits_less(_, _)
digits_less(a, b) ==
    IF Len(a) = 0 THEN FALSE
    ELSE IF a[1] # b[1] THEN a[1] < b[1]
    ELSE digits_less(Tail(a), Tail(b))

\* a <= b for digit sequences without leading zeros
digits_leq(a, b) ==
    \/ Len(a) < Len(b)
    \/ Len(a) = Len(b) /\ (a = b \/ digits_less(a, b))

\* LONG_MAX = 9223372036854775807; -LONG_MIN is one more
LONG_MAX_digits == <<9, 2, 2, 3, 3, 7, 2, 0, 3, 6, 8, 5, 4, 7, 7, 5, 8, 0, 7>>
LONG_MIN_digits == <<9, 2, 2, 3, 3, 7, 2, 0, 3, 6, 8, 5, 4, 7, 7, 5, 8, 0, 8>>

\* the low 32 bits of a decimal number, as two 16-bit halves
RECURSIVE low32(_, _)
low32(ds, acc) ==
    IF Len(ds) = 0 THEN acc
    ELSE LET lo == acc.lo * 10 + ds[1]
             hi == acc.hi * 10 + (lo \div 65536)
         IN low32(Tail(ds), [hi |-> hi % 65536, lo |-> lo % 65536])

\* two's complement negation of the 32 bits
negate32(h) ==
    IF h.lo = 0 THEN [hi |-> (65536 - h.hi) % 65536, lo |-> 0]
    ELSE [hi |-> 65535 - h.hi, lo |-> 65536 - h.lo]

\* line 110-111: `return value;` converts the long to int: the low 32 bits,
\* read as a signed number
long_to_int(h) ==
    IF h.hi < 32768 THEN h.hi * 65536 + h.lo
    ELSE (h.hi - 65536) * 65536 + h.lo

\* std::stol(str): [thrown, value]; std::invalid_argument when no conversion
\* is made, std::out_of_range when the number is not a long; value is the
\* long already converted to int
stol(str) ==
    LET r == strtol(str, 10) IN
    IF r.end = 0 THEN [thrown |-> TRUE, value |-> 0]
    ELSE LET ds == strip_zeros([i \in 1..(r.end - r.start + 1) |->
                                   digit_value(str[r.start + i - 1])])
             in_range == IF r.negative THEN digits_leq(ds, LONG_MIN_digits)
                         ELSE digits_leq(ds, LONG_MAX_digits)
             h == low32(ds, [hi |-> 0, lo |-> 0])
         IN IF ~in_range THEN [thrown |-> TRUE, value |-> 0]
            ELSE [thrown |-> FALSE,
                  value |-> long_to_int(IF r.negative THEN negate32(h) ELSE h)]

\* Ini::read_int
read_int(content, section_name, field_name, default_value) ==
    LET r == try_get_field(content, section_name, field_name) IN
    IF ~r.found THEN default_value
    ELSE IF ~is_convertable_to_long(r.value) THEN default_value
    ELSE LET v == stol(r.value) IN
         IF v.thrown THEN default_value ELSE v.value

(***************************************************************************)
(* The inputs of the model.                                                *)
(***************************************************************************)
\* lines a file may hold when the program is started on it (a header with an
\* empty name, "[]", is a line the program writes itself, for the empty
\* section name)
InitLineChoices ==
    { <<"[", "A", "]">>,                     \* header
      <<"[", "B", "]">>,                     \* header
      <<"K", "=", "2">>,                     \* field
      <<"K", "=">>,                          \* field with an empty value
      <<>>,                                  \* blank
      <<" ", "#", "c">>,                     \* comment, indented
      <<"[", "A">> }                         \* header without ']'

RECURSIVE join(_)
join(lines) ==
    IF Len(lines) = 0 THEN <<>>
    ELSE IF Len(lines) = 1 THEN lines[1]
    ELSE lines[1] \o <<NL>> \o join(Tail(lines))

InitFiles ==
    { f \in { join(ls) : ls \in UNION { [1..k -> InitLineChoices] : k \in 0..MaxInitLines } } :
        Len(f) <= MaxInitLen }

A == <<"A">>
B == <<"B">>
K == <<"K">>

\* (section, field) pairs the calls name: two plain ones, a field name with a
\* leading blank, and the empty section name
Keys == { <<A, K>>, <<B, K>>, <<A, <<" ", "K">> >>, << <<>>, K>> }
\* the pairs the boolean calls name
BoolKeys == { <<A, K>>, << <<>>, K>> }
StrValues == { <<"1">>, <<>> }
StrDefaults == { <<"9">> }
Separators == { "=", ":" }
PrefixLists == { << <<"#">>, <<";">> >>, << <<";">> >> }

(***************************************************************************)
(* The state machine.  A call is one step: it leaves in `last` what was    *)
(* called and what it returned, and the caller takes the result (Return)   *)
(* before it calls again.                                                  *)
(***************************************************************************)
NoCall ==
    [op |-> "none", section |-> <<>>, field |-> <<>>, text |-> <<>>,
     value |-> <<>>, ret |-> <<>>, opened |-> FALSE, found_mode |-> NO_MATCH,
     before |-> <<>>, can_open |-> FALSE]

\* raw values of an integer field: every text of up to MaxIntLen of these
\* characters, and texts at the edges of int and of long
IntChars == {"0", "1", "9", "f", "x", "-", " "}
LongTexts ==
    { <<"2","1","4","7","4","8","3","6","4","7">>,
      <<"2","1","4","7","4","8","3","6","4","8">>,
      <<"-","2","1","4","7","4","8","3","6","4","8">>,
      <<"4","2","9","4","9","6","7","2","9","7">>,
      <<"9","2","2","3","3","7","2","0","3","6","8","5","4","7","7","5","8","0","7">>,
      <<"9","2","2","3","3","7","2","0","3","6","8","5","4","7","7","5","8","0","8">>,
      <<"f","f","f","f","f","f","f","f","f","f","f","f","f","f","f","f","f">> }
IntTexts ==
    LongTexts \cup UNION { [1..n -> IntChars] : n \in 1..MaxIntLen }
IntDefaults == {-5, 3}

\* two callers of write_str on the same file, for different pairs
Writers == {1, 2}
WriterKey(w) == IF w = 1 THEN <<A, K>> ELSE <<B, K>>
WriterValue(w) == <<"1">>

\* a call that has not started
Idle ==
    [pc |-> "idle", content |-> <<>>, result |-> <<>>, ret |-> FALSE,
     loaded_at |-> 0, stored_at |-> 0]

\* Ini::Ini: '=' and {"#", ";"}; the file is whatever is at file_path
Init ==
    /\ file \in InitFiles
    /\ file_exists \in BOOLEAN
    /\ (~file_exists => file = <<>>)
    /\ field_separator_ = "="
    /\ comment_prefix_list_ = << <<"#">>, <<";">> >>
    /\ last = NoCall
    /\ writers = [w \in Writers |-> Idle]

set_field_separator(c) ==
    /\ last.op = "none"
    /\ field_separator_' = c
    /\ last' = [NoCall EXCEPT !.op = "set_field_separator"]
    /\ UNCHANGED <<file, file_exists, comment_prefix_list_, writers>>

set_comment_prefix_list(l) ==
    /\ last.op = "none"
    /\ comment_prefix_list_' = l
    /\ last' = [NoCall EXCEPT !.op = "set_comment_prefix_list"]
    /\ UNCHANGED <<file, file_exists, field_separator_, writers>>

\* the write_* methods: the text handed to set_field, and the file afterwards
Write(op, section_name, field_name, value, text, can_open) ==
    LET r == set_field(file, can_open, section_name, field_name, text) IN
    /\ last.op = "none"
    /\ Len(file) <= MaxFileLen
    /\ file' = r.content
    /\ file_exists' = (file_exists \/ r.written)
    /\ last' = [op |-> op, section |-> section_name, field |-> field_name,
                text |-> text, value |-> value, ret |-> r.ret,
                opened |-> r.opened, found_mode |-> r.found_mode,
                before |-> file, can_open |-> can_open]
    /\ UNCHANGED <<field_separator_, comment_prefix_list_, writers>>

write_str(section_name, field_name, value, can_open) ==
    Write("write_str", section_name, field_name, value, value, can_open)

write_bool(section_name, field_name, value, can_open) ==
    Write("write_bool", section_name, field_name, value, bool_text(value), can_open)

\* the read_* methods: the default given, and the value returned
Read(op, section_name, field_name, default_value, result) ==
    /\ last.op = "none"
    /\ last' = [op |-> op, section |-> section_name, field |-> field_name,
                text |-> <<>>, value |-> default_value, ret |-> result,
                opened |-> FALSE, found_mode |-> NO_MATCH,
                before |-> file, can_open |-> FALSE]
    /\ UNCHANGED <<file, file_exists, field_separator_, comment_prefix_list_, writers>>

ReadStr(section_name, field_name, default_value) ==
    Read("read_str", section_name, field_name, default_value,
         read_str(file, section_name, field_name, default_value))

ReadBool(section_name, field_name, default_value) ==
    Read("read_bool", section_name, field_name, default_value,
         read_bool(file, section_name, field_name, default_value))

SetSeparator == \E c \in Separators : set_field_separator(c)
SetPrefixes == \E l \in PrefixLists : set_comment_prefix_list(l)
WriteStr ==
    \E k \in Keys, v \in StrValues, o \in BOOLEAN : write_str(k[1], k[2], v, o)
WriteBool ==
    \E k \in BoolKeys, v \in BOOLEAN, o \in BOOLEAN : write_bool(k[1], k[2], v, o)
DoReadStr ==
    \E k \in Keys, d \in StrDefaults : ReadStr(k[1], k[2], d)
DoReadBool ==
    \E k \in BoolKeys, d \in BOOLEAN : ReadBool(k[1], k[2], d)

\* the caller has the result; the next call may start
Return ==
    /\ last.op # "none"
    /\ last' = NoCall
    /\ UNCHANGED <<file, file_exists, field_separator_, comment_prefix_list_, writers>>

Next ==
    \/ SetSeparator
    \/ SetPrefixes
    \/ WriteStr
    \/ WriteBool
    \/ DoReadStr
    \/ DoReadBool
    \/ Return

Spec == Init /\ [][Next]_vars

(***************************************************************************)
(* read_int on a file that holds one integer field, [A] K=<raw value>.     *)
(***************************************************************************)
InitInt ==
    /\ \E text \in IntTexts : file = <<"[", "A", "]", NL, "K", "=">> \o text
    /\ file_exists = TRUE
    /\ field_separator_ = "="
    /\ comment_prefix_list_ = << <<"#">>, <<";">> >>
    /\ last = NoCall
    /\ writers = [w \in Writers |-> Idle]

ReadInt(section_name, field_name, default_value) ==
    Read("read_int", section_name, field_name, default_value,
         read_int(file, section_name, field_name, default_value))

DoReadInt == \E d \in IntDefaults : ReadInt(A, K, d)

NextInt ==
    \/ DoReadInt
    \/ Return

SpecInt == InitInt /\ [][NextInt]_vars

(***************************************************************************)
(* Two set_field calls running at once.  A call is two steps with nothing  *)
(* that holds the file in between: the load of the whole file into iss     *)
(* (with the scan of what was loaded), and later the overwrite of the      *)
(* whole file through a std::ofstream.  loaded_at and stored_at number the *)
(* steps in the order they were taken.                                     *)
(***************************************************************************)
StepsTaken ==
    LET n(w) == IF writers[w].pc = "idle" THEN 0
                ELSE IF writers[w].stored_at = 0 THEN 1 ELSE 2
    IN n(1) + n(2)

\* lines 325-327 and the scan of the loaded text (337-400): a malformed
\* document ends the call here with false
Load(w) ==
    LET b == set_build(file, WriterKey(w)[1], WriterKey(w)[2], WriterValue(w)) IN
    /\ writers[w].pc = "idle"
    /\ writers' = [writers EXCEPT ![w] =
                      [pc |-> IF b.ok THEN "loaded" ELSE "done",
                       content |-> file, result |-> b.result, ret |-> FALSE,
                       loaded_at |-> StepsTaken + 1, stored_at |-> 0]]
    /\ UNCHANGED <<file, file_exists, field_separator_, comment_prefix_list_, last>>

\* the store that loads the file again at the moment it writes
stored_text_reloaded(w) ==
    set_build(file, WriterKey(w)[1], WriterKey(w)[2], WriterValue(w)).result

\* line 406: ofs << result, the text built from what this call loaded
stored_text(w) == writers[w].result

\* lines 402-408: the overwrite, when the file can be opened
Store(w, can_open) ==
    /\ writers[w].pc = "loaded"
    /\ file' = IF can_open THEN stored_text(w) ELSE file
    /\ file_exists' = (file_exists \/ can_open)
    /\ writers' = [writers EXCEPT ![w].pc = "done", ![w].ret = can_open,
                                  ![w].stored_at = StepsTaken + 1]
    /\ UNCHANGED <<field_separator_, comment_prefix_list_, last>>

DoLoad == \E w \in Writers : Load(w)
DoStore == \E w \in Writers, o \in BOOLEAN : Store(w, o)

NextConc ==
    \/ DoLoad
    \/ DoStore

SpecConc == Init /\ [][NextConc]_vars

(***************************************************************************)
(* Vocabulary of the claims: a document described line by line, without    *)
(* the scan.  Lines are taken trimmed, as the classifier sees them.        *)
(***************************************************************************)
WriteOps == {"write_str", "write_bool"}
ReadOps == {"read_str", "read_bool"}

RawLines(content) == scan_lines(content)
TrimmedLines(content) ==
    LET ls == scan_lines(content) IN [i \in 1..Len(ls) |-> trim(ls[i])]

IsHeader(l) == ~is_ignore_line(l) /\ l[1] = "["
IsFieldLike(l) == ~is_ignore_line(l) /\ l[1] # "["
GoodHeader(l) == IsHeader(l) /\ find(l, "]") > 2
HeaderNames(l, s) == GoodHeader(l) /\ SubSeq(l, 2, find(l, "]") - 1) = s

\* line i is malformed: a header without ']' or with an empty name, a line
\* without the separator, or a field-shaped line before any header
BadLine(ls, i) ==
    \/ IsHeader(ls[i]) /\ ~GoodHeader(ls[i])
    \/ /\ IsFieldLike(ls[i])
       /\ \/ find(ls[i], field_separator_) = npos
          \/ ~\E j \in 1..(i - 1) : IsHeader(ls[j])
Malformed(content) ==
    LET ls == TrimmedLines(content) IN \E i \in 1..Len(ls) : BadLine(ls, i)

\* line i lies in a section named s: the nearest header above it names s
InSection(ls, i, s) ==
    \E h \in 1..(i - 1) :
        /\ HeaderNames(ls[h], s)
        /\ \A j \in (h + 1)..(i - 1) : ~IsHeader(ls[j])
IsField(l, f) ==
    /\ IsFieldLike(l)
    /\ find(l, field_separator_) # npos
    /\ trim(SubSeq(l, 1, find(l, field_separator_) - 1)) = f
FieldValue(l) == trim(SubSeq(l, find(l, field_separator_) + 1, Len(l)))
Matches(ls, i, s, f) == IsField(ls[i], f) /\ InSection(ls, i, s)
HasMatch(ls, s, f) == \E i \in 1..Len(ls) : Matches(ls, i, s, f)
FirstMatch(ls, s, f) ==
    CHOOSE i \in 1..Len(ls) :
        Matches(ls, i, s, f) /\ \A j \in 1..(i - 1) : ~Matches(ls, j, s, f)
NamesSection(ls, s) == \E i \in 1..Len(ls) : HeaderNames(ls[i], s)

EndsWithNL(str) == Len(str) > 0 /\ str[Len(str)] = NL

RECURSIVE IsSubsequence(_, _)
IsSubsequence(a, b) ==
    IF Len(a) = 0 THEN TRUE
    ELSE IF Len(b) = 0 THEN FALSE
    ELSE IF a[1] = b[1] THEN IsSubsequence(Tail(a), Tail(b))
    ELSE IsSubsequence(a, Tail(b))

WriteDone == last.op \in WriteOps /\ last.ret = TRUE

(***************************************************************************)
(* The claims.                                                             *)
(***************************************************************************)

\* C1: round trip.  After write_T(s, f, v) has returned true, read_T(s, f, d)
\* on the same file returns v for every default d different from v.  (Stated
\* for successful writes and, for strings, non-empty values: a weaker
\* statement than the claim, so its violation violates the claim.)
C1_RoundTrip ==
    /\ (last.op = "write_str" /\ last.ret = TRUE /\ last.value # <<>>) =>
          \A d \in StrDefaults :
              d # last.value =>
                  read_str(file, last.section, last.field, d) = last.value
    /\ (last.op = "write_bool" /\ last.ret = TRUE) =>
          \A d \in BOOLEAN :
              d # last.value =>
                  read_bool(file, last.section, last.field, d) = last.value

\* C2: parse failure never touches the file.  A write_* on a document that
\* holds a malformed line anywhere returns false, does not open the file for
\* writing and leaves the content as it was.
C2_ParseFailureUntouched ==
    (last.op \in WriteOps /\ Malformed(last.before)) =>
        /\ last.ret = FALSE
        /\ last.opened = FALSE
        /\ file = last.before

\* C2, the case: the malformed line comes after the target field
C2_Witness ==
    /\ last.op = "write_str"
    /\ last.section = A /\ last.field = K /\ last.value = <<"1">>
    /\ last.before = join(<< <<"[", "A", "]">>, <<"K", "=", "2">>, <<"[", "A">> >>)
    /\ Malformed(last.before)
    /\ last.ret = FALSE

\* the lines of a document that are not an assignment of field f in a
\* section named s, as they stand in the file (untrimmed), in document order
RECURSIVE UnrelatedFrom(_, _, _, _, _)
UnrelatedFrom(raw, ls, i, s, f) ==
    IF i > Len(raw) THEN <<>>
    ELSE IF Matches(ls, i, s, f) THEN UnrelatedFrom(raw, ls, i + 1, s, f)
    ELSE <<raw[i]>> \o UnrelatedFrom(raw, ls, i + 1, s, f)
UnrelatedLines(content, s, f) ==
    UnrelatedFrom(RawLines(content), TrimmedLines(content), 1, s, f)

\* C3: a successful write leaves every unrelated line byte-for-byte unchanged.
\* Every passthrough line, header line and field line other than the target
\* assignment is in the output exactly as it was in the input, leading and
\* trailing whitespace included, and in the same relative order.
C3_UnrelatedLinesVerbatim ==
    WriteDone =>
        IsSubsequence(UnrelatedLines(last.before, last.section, last.field),
                      RawLines(file))

\* C4: idempotence.  If write(s, f, v) succeeds, performing write(s, f, v) a
\* second time leaves the content the first write produced.
C4_WriteIdempotent ==
    WriteDone =>
        \A can_open \in BOOLEAN :
            set_field(file, can_open, last.section, last.field, last.text).content = file

\* C5: read falls back to the default.  read_T(s, f, d) returns d when the
\* file does not exist or is empty, when no header names section s, when
\* section s has no field f, and when the first matching field has an empty
\* value; and a read always returns a value of its type.
C5_ReadFallsBack ==
    last.op \in ReadOps =>
        LET ls == TrimmedLines(last.before)
            s == last.section
            f == last.field
        IN /\ (~file_exists \/ last.before = <<>>) => last.ret = last.value
           /\ ~NamesSection(ls, s) => last.ret = last.value
           /\ ~HasMatch(ls, s, f) => last.ret = last.value
           /\ (HasMatch(ls, s, f) /\ FieldValue(ls[FirstMatch(ls, s, f)]) = <<>>) =>
                  last.ret = last.value
           /\ last.op = "read_bool" => last.ret \in BOOLEAN
           /\ last.op = "read_str" => last.ret \in Seq(STRING)

\* C5, the case: the first matching field is empty and a later one is not
C5_Witness ==
    /\ last.op = "read_str"
    /\ last.section = A /\ last.field = K /\ last.value = <<"9">>
    /\ last.before = join(<< <<"[", "A", "]">>, <<"K", "=">>, <<"K", "=", "2">> >>)
    /\ HasMatch(TrimmedLines(last.before), A, K)
    /\ FieldValue(TrimmedLines(last.before)[FirstMatch(TrimmedLines(last.before), A, K)]) = <<>>
    /\ last.ret = <<"9">>

\* the document a write to a section no header names is said to produce: the
\* given lines, the header of the section, the assignment
WithNewSection(lines, s, f, v) ==
    join(lines \o << <<"[">> \o s \o <<"]">>, f \o <<field_separator_>> \o v >>)

FirstHeaderOf(ls, s) ==
    CHOOSE h \in 1..Len(ls) :
        HeaderNames(ls[h], s) /\ \A j \in 1..(h - 1) : ~HeaderNames(ls[j], s)
NextOtherHeader(ls, h, s) ==
    LET later == { j \in (h + 1)..Len(ls) : IsHeader(ls[j]) /\ ~HeaderNames(ls[j], s) }
    IN IF later = {} THEN 0
       ELSE CHOOSE j \in later : \A k \in later : j <= k

\* C7: insertion placement.  When the target section exists, does not hold the
\* target field and is followed by a header of another section, a successful
\* write inserts 'f<separator>v' immediately before that header; when the
\* target section is the last one the line is appended at the end.  No other
\* line is added.  (The other lines are compared trimmed.)
C7_InsertionPlacement ==
    LET ls == TrimmedLines(last.before) IN
    (/\ WriteDone
     /\ NamesSection(ls, last.section)
     /\ ~HasMatch(ls, last.section, last.field)) =>
        LET h == FirstHeaderOf(ls, last.section)
            n == NextOtherHeader(ls, h, last.section)
            a == last.field \o <<field_separator_>> \o last.text
        IN RawLines(file) =
              IF n = 0 THEN ls \o <<a>>
              ELSE SubSeq(ls, 1, n - 1) \o <<a>> \o SubSeq(ls, n, Len(ls))

\* C8 as stated: first match wins on read.  The lookup returns the value of
\* the first field line, in document order, in a section named s and with
\* name f; the default when that value is empty; later matching lines never
\* change the result.
C8_FirstMatchWins ==
    LET ls == TrimmedLines(last.before) IN
    (last.op = "read_str" /\ HasMatch(ls, last.section, last.field)) =>
        LET v == FieldValue(ls[FirstMatch(ls, last.section, last.field)]) IN
        last.ret = IF v = <<>> THEN last.value ELSE v

\* C8 amended: provided no malformed line stands before the first matching
\* field line, the lookup returns the value of that line, or 'not found' (the
\* default) when that value is empty; later matching lines never change the
\* result.
C8_FirstMatchWinsAmended ==
    LET ls == TrimmedLines(last.before) IN
    (/\ last.op = "read_str"
     /\ HasMatch(ls, last.section, last.field)
     /\ \A j \in 1..(FirstMatch(ls, last.section, last.field) - 1) : ~BadLine(ls, j)) =>
        LET v == FieldValue(ls[FirstMatch(ls, last.section, last.field)]) IN
        last.ret = IF v = <<>> THEN last.value ELSE v

\* C8, the case: the first match has a value, a later one has none
C8_Witness ==
    /\ last.op = "read_str"
    /\ last.section = A /\ last.field = K /\ last.value = <<"9">>
    /\ last.before = join(<< <<"[", "A", "]">>, <<"K", "=", "2">>, <<"K", "=">> >>)
    /\ FirstMatch(TrimmedLines(last.before), A, K) = 2
    /\ Matches(TrimmedLines(last.before), 3, A, K)
    /\ last.ret = <<"2">>

\* C9: first occurrence wins on write.  When the target field occurs more than
\* once in sections named s, a successful write replaces only the first
\* occurrence; every later occurrence is still in the output as it was.
C9_FirstOccurrenceOnly ==
    LET ls == TrimmedLines(last.before)
        a == last.field \o <<field_separator_>> \o last.text
    IN WriteDone =>
        \A j \in 1..Len(ls) :
            (/\ Matches(ls, j, last.section, last.field)
             /\ j # FirstMatch(ls, last.section, last.field)
             /\ ls[j] # a) =>
                \E k \in 1..Len(RawLines(file)) : RawLines(file)[k] = ls[j]

LastLineBlank(content) ==
    LET ls == RawLines(content) IN Len(ls) > 0 /\ trim(ls[Len(ls)]) = <<>>

\* C10 as stated: after any successful write the persisted content does not
\* end with a line terminator.
C10_NoTrailingTerminator ==
    WriteDone => ~EndsWithNL(file)

\* C10 amended: after a successful write (of a value without a line
\* terminator) the persisted content ends with a line terminator exactly when
\* the last line of the input, the text after its last terminator, is blank
\* and the write appended nothing at the end of the document (the scan ended
\* in mode BOTH_MATCH).
C10_TrailingTerminatorAmended ==
    WriteDone =>
        (EndsWithNL(file) <=>
            (last.found_mode = BOTH_MATCH /\ LastLineBlank(last.before)))

\* C10, the case: the input ends with a terminator and holds the target field
C10_Witness ==
    /\ WriteDone
    /\ last.section = A /\ last.field = K /\ last.text = <<"1">>
    /\ last.before = <<"[", "A", "]", NL, "K", "=", "2", NL>>
    /\ EndsWithNL(last.before)
    /\ file = <<"[", "A", "]", NL, "K", "=", "1", NL>>

(***************************************************************************)
(* Vocabulary of the claim about concurrent writers.                       *)
(***************************************************************************)
OtherWriter(w) == IF w = 1 THEN 2 ELSE 1
BothStored == \A w \in Writers : writers[w].pc = "done" /\ writers[w].ret = TRUE
\* both calls loaded before either stored
BothLoadedFirst ==
    \A w \in Writers, u \in Writers : writers[w].loaded_at < writers[u].stored_at
LastStorer ==
    CHOOSE w \in Writers : writers[OtherWriter(w)].stored_at < writers[w].stored_at
\* the file holds the update of writer w
HoldsUpdate(content, w) ==
    \A d \in StrDefaults :
        read_str(content, WriterKey(w)[1], WriterKey(w)[2], d) = WriterValue(w)

\* C11: lost update.  A write is a load of the whole file and, separately, an
\* overwrite of the whole file, with no lock.  For two writers of different
\* (section, field) pairs that both return true: when both loaded before
\* either stored, the file is what the writer that stored last built from the
\* text it loaded, it holds that writer's update and not the other's; when
\* one writer stored before the other loaded, the file holds both updates.
C11_LostUpdate ==
    BothStored =>
        LET w == LastStorer
            u == OtherWriter(w)
        IN IF BothLoadedFirst
           THEN /\ writers[w].content = writers[u].content
                /\ file = set_build(writers[w].content, WriterKey(w)[1],
                                    WriterKey(w)[2], WriterValue(w)).result
                /\ HoldsUpdate(file, w)
                /\ ~HoldsUpdate(file, u)
           ELSE /\ writers[u].stored_at < writers[w].loaded_at
                /\ HoldsUpdate(file, w)
                /\ HoldsUpdate(file, u)

\* C11, the case: both loaded "[A]", writer 2 stored last, the update of
\* writer 1 is gone
C11_Witness ==
    /\ BothStored
    /\ BothLoadedFirst
    /\ LastStorer = 2
    /\ writers[1].content = <<"[", "A", "]">>
    /\ file = join(<< <<"[", "A", "]">>, <<"[", "B", "]">>, <<"K", "=", "1">> >>)
    /\ ~HoldsUpdate(file, 1)

(***************************************************************************)
(* Vocabulary of the claim about integers: literals and decimal prefixes,  *)
(* described by their shape.                                               *)
(***************************************************************************)
\* the raw value of the field of the file of SpecInt
RawInt(content) == trim(SubSeq(content, 7, Len(content)))
Unsigned(t) == IF Len(t) > 0 /\ t[1] \in {"+", "-"} THEN Tail(t) ELSE t
\* t is, as a whole, a literal of the base: a sign or none, for base 16 a
\* "0x" or none, then one digit of the base or more
IsLiteral(t, base) ==
    LET body == Unsigned(t)
        ds == IF /\ base = 16
                 /\ Len(body) >= 3
                 /\ body[1] = "0"
                 /\ body[2] \in {"x", "X"}
              THEN SubSeq(body, 3, Len(body)) ELSE body
    IN Len(ds) > 0 /\ \A i \in 1..Len(ds) : digit_value(ds[i]) < base
\* the decimal digits t starts with, behind its sign
DecimalPrefix(t) ==
    LET body == Unsigned(t)
        n == Cardinality({ i \in 1..Len(body) :
                             \A j \in 1..i : digit_value(body[j]) < 10 })
    IN [i \in 1..n |-> digit_value(body[i])]
IsNegative(t) == Len(t) > 0 /\ t[1] = "-"
INT_MAX_digits == <<2, 1, 4, 7, 4, 8, 3, 6, 4, 7>>
INT_MIN_digits == <<2, 1, 4, 7, 4, 8, 3, 6, 4, 8>>
FitsInt(ds, negative) ==
    digits_leq(strip_zeros(ds), IF negative THEN INT_MIN_digits ELSE INT_MAX_digits)
FitsLong(ds, negative) ==
    digits_leq(strip_zeros(ds), IF negative THEN LONG_MIN_digits ELSE LONG_MAX_digits)
\* the number a digit sequence that fits int denotes
RECURSIVE IntOf(_, _, _)
IntOf(ds, negative, acc) ==
    IF Len(ds) = 0 THEN acc
    ELSE IntOf(Tail(ds), negative,
               IF negative THEN acc * 10 - ds[1] ELSE acc * 10 + ds[1])

\* C12: integer conversion validates, then parses in base 10.  read_int
\* accepts a raw value that is as a whole a base-10, base-8 or base-16
\* literal, and the number returned is then the base-10 parse of the text:
\* the value of its decimal prefix, also when only base 16 validated it
\* ("0x1" yields 0), and the default when it has no decimal prefix ("ff"); a
\* raw value that is a literal in no base yields the default.  (A decimal
\* prefix that is not a long is allowed to yield the default.)
C12_DecimalReparse ==
    (last.op = "read_int" /\ RawInt(last.before) # <<>>) =>
        LET t == RawInt(last.before)
            ds == DecimalPrefix(t)
        IN IF ~\E base \in {10, 8, 16} : IsLiteral(t, base)
           THEN last.ret = last.value
           ELSE IF Len(ds) = 0 \/ ~FitsLong(ds, IsNegative(t))
           THEN last.ret = last.value
           ELSE /\ FitsInt(ds, IsNegative(t))
                /\ last.ret = IntOf(strip_zeros(ds), IsNegative(t), 0)

(***************************************************************************)
(* Vocabulary of the claims about the scan of a write: the state of the    *)
(* scan after each line of the document the call loaded.                   *)
(***************************************************************************)
\* ScanStates(...)[i]: the state after the first i lines (0: before the scan)
ScanStates(content, s, f, v) ==
    LET ls == scan_lines(content) IN
    [i \in 0..Len(ls) |-> set_scan(SubSeq(ls, 1, i), 1, set_start, s, f, v)]
ScanOfLast == ScanStates(last.before, last.section, last.field, last.text)
ModeRank(m) == IF m = NO_MATCH THEN 0 ELSE IF m = SECTION_MATCH THEN 1 ELSE 2

\* C13: the match mode of the write scan is monotone.  It only moves
\* NO_MATCH -> SECTION_MATCH -> BOTH_MATCH, and once BOTH_MATCH it stays so
\* for the rest of the scan, also at a later header naming the target
\* section; hence in a successful write that has replaced or inserted the
\* assignment during the scan, nothing is appended at the end of the
\* document.
C13_ModeMonotone ==
    last.op \in WriteOps =>
        LET st == ScanOfLast
            n == Len(scan_lines(last.before))
        IN /\ \A i \in 0..n, j \in 0..n :
                  (i <= j /\ st[j].ok) =>
                      ModeRank(st[i].found_mode) <= ModeRank(st[j].found_mode)
           /\ (WriteDone /\ \E i \in 0..n : st[i].found_mode = BOTH_MATCH) =>
                  file \o <<NL>> = st[n].oss

\* the document cut behind its line m
UpToLine(content, m) == join(SubSeq(RawLines(content), 1, m))

\* C14: strict ordered scan on read.  When a malformed line (a malformed
\* header, a field line before any header, a line without the separator)
\* stands before the first matching field line, the read returns the default
\* although a matching field follows; when malformed lines stand only behind
\* the first matching field line, the read returns what it returns on the
\* document cut behind that line.
C14_StrictScan ==
    LET ls == TrimmedLines(last.before)
        s == last.section
        f == last.field
    IN (last.op \in ReadOps /\ HasMatch(ls, s, f)) =>
        LET m == FirstMatch(ls, s, f) IN
        /\ (\E j \in 1..(m - 1) : BadLine(ls, j)) => last.ret = last.value
        /\ (/\ \A j \in 1..(m - 1) : ~BadLine(ls, j)
            /\ \E j \in (m + 1)..Len(ls) : BadLine(ls, j)) =>
               last.ret = IF last.op = "read_str"
                          THEN read_str(UpToLine(last.before, m), s, f, last.value)
                          ELSE read_bool(UpToLine(last.before, m), s, f, last.value)

\* C14, the case: a header without ']' before the section that holds the field
C14_Witness ==
    /\ last.op = "read_str"
    /\ last.section = A /\ last.field = K /\ last.value = <<"9">>
    /\ last.before = join(<< <<"[", "A">>, <<"[", "A", "]">>, <<"K", "=", "2">> >>)
    /\ BadLine(TrimmedLines(last.before), 1)
    /\ FirstMatch(TrimmedLines(last.before), A, K) = 3
    /\ last.ret = <<"9">>

\* C15: writes to one key do not disturb other keys.  A successful write_str
\* to (s, f) leaves the result of read_str(s', f', d) as it was, for every
\* pair (s', f') different from (s, f); so after any sequence of successful
\* writes a pair reads as it was last written or, never written, as in the
\* initial file.  (Stated for one write, from which the sequence follows: the
\* pair written reads as written, every other pair reads as before.)
C15_OtherKeysUndisturbed ==
    (last.op = "write_str" /\ last.ret = TRUE) =>
        \A k \in Keys, d \in StrDefaults :
            IF k = <<last.section, last.field>>
            THEN (last.value # <<>> /\ d # last.value) =>
                     read_str(file, k[1], k[2], d) = last.value
            ELSE read_str(file, k[1], k[2], d) = read_str(last.before, k[1], k[2], d)

\* C16: a successful write preserves well-formedness.  For every section
\* name (the empty one included), field name and value, after write_*
\* returned true the persisted document holds no malformed line, so a
\* following write to the same file does not fail on its scan and a
\* following read of the pair written is not aborted.
C16_WriteKeepsWellFormed ==
    WriteDone =>
        /\ ~Malformed(file)
        /\ \A k \in Keys, v \in StrValues : set_build(file, k[1], k[2], v).ok

\* the lines of an output buffer, trimmed
BufferLines(oss) == TrimmedLines(SubSeq(oss, 1, Len(oss) - 1))

\* C17: at every point of the write scan, mode SECTION_MATCH implies that the
\* current section is the target section; so the assignment inserted before
\* the header of another section, or appended at the end of the document in
\* mode SECTION_MATCH, lies in a section whose name is the target section.
C17_SectionMatchInTarget ==
    last.op \in WriteOps =>
        LET st == ScanOfLast
            n == Len(scan_lines(last.before))
            a == trim(assignment(last.field, last.text))
        IN /\ \A i \in 0..n :
                  (st[i].ok /\ st[i].found_mode = SECTION_MATCH) =>
                      st[i].current_section = last.section
           /\ \A i \in 1..n :
                  (/\ st[i].ok
                   /\ st[i - 1].found_mode = SECTION_MATCH
                   /\ st[i].found_mode = BOTH_MATCH
                   /\ IsHeader(trim(scan_lines(last.before)[i]))) =>
                      LET out == BufferLines(st[i].oss) IN
                      /\ out[Len(out) - 1] = a
                      /\ InSection(out, Len(out) - 1, last.section)
           /\ (WriteDone /\ last.found_mode = SECTION_MATCH) =>
                  LET out == TrimmedLines(file) IN
                  /\ out[Len(out)] = a
                  /\ InSection(out, Len(out), last.section)

\* C17, the case: the target section is followed by another one, the
\* assignment is inserted before the header of that one
C17_Witness ==
    /\ WriteDone
    /\ last.section = A /\ last.field = K /\ last.text = <<"1">>
    /\ last.before = join(<< <<"[", "A", "]">>, <<" ", "#", "c">>, <<"[", "B", "]">> >>)
    /\ ScanOfLast[2].found_mode = SECTION_MATCH
    /\ ScanOfLast[3].found_mode = BOTH_MATCH
    /\ file = join(<< <<"[", "A", "]">>, <<"#", "c">>, <<"K", "=", "1">>, <<"[", "B", "]">> >>)

\* the buffer of the last write when its scan met no malformed line
BufferOfLast == set_buffer(last.before, last.section, last.field, last.text)

\* C18: on every path of a write that reaches the strip of the trailing
\* terminator (empty file, missing file, any final match mode) the output
\* buffer is not empty and its last character is a line terminator; exactly
\* that one character is removed, never a character of a line, and the
\* text written is the buffer without it.
C18_StripsOneTerminator ==
    (last.op \in WriteOps /\ BufferOfLast.ok) =>
        LET oss == BufferOfLast.oss IN
        /\ Len(oss) > 0
        /\ oss[Len(oss)] = NL
        /\ pop_back(oss) \o <<NL>> = oss
        /\ last.ret = TRUE => file \o <<NL>> = oss

\* C18, the case: the file is empty or missing, the scan loop is not entered
\* and the buffer holds only what is appended after it
C18_Witness ==
    /\ WriteDone
    /\ BufferOfLast.ok
    /\ last.before = <<>>
    /\ last.found_mode = NO_MATCH
    /\ last.section = A /\ last.field = K /\ last.text = <<"1">>
    /\ BufferOfLast.oss = <<"[", "A", "]", NL, "K", "=", "1", NL>>
    /\ file = <<"[", "A", "]", NL, "K", "=", "1">>

=============================================================================
